---- MODULE Spec2Model ----
(***************************************************************************)
(* The FAQ assistant screen of mimicry-ux-lab-30: the conversation, the    *)
(* input buffer, the response pipeline and the speech-recognition session. *)
(* Two versions of the screen exist in the repository:                     *)
(*   mode = "simulated" : src/src/pages/Index.tsx (canned reply on a timer)*)
(*   mode = "remote"    : src/unnamed/part_000    (reply fetched by POST)  *)
(* A text is a sequence of chunks (one-character strings for typed and     *)
(* spoken text, one chunk for each fixed text of the program).  Once the   *)
(* component is torn down its state setters have no effect, while pending  *)
(* continuations (fetch, json, timers, session events) still run.          *)
(***************************************************************************)
EXTENDS Integers, Sequences, FiniteSets, TLC

\* ---------------------------------------------------------------- bounds
MaxSubmits == 2    \* accepted submissions per run

\* ----------------------------------------------------------------- texts
IsWhitespace(c) == c = " "

\* the texts typed into the box: empty, whitespace only, plain, padded
TypedTexts == {<<>>, <<" ">>, <<"a">>, <<" ", "a", " ">>}

Words == {<<"a">>}

GreetingText == <<"Hello! I'm your FAQ assistant. How can I help you today?">>
CannedText == <<"I understand your question. Let me help you with that.">>
ApologyText == <<"I apologize, but I'm having trouble processing your request. Please try again.">>

Answers == {<<"30 days">>, ApologyText}

RECURSIVE TrimStart(_)
TrimStart(s) ==
  IF s = <<>> THEN <<>>
  ELSE IF IsWhitespace(Head(s)) THEN TrimStart(Tail(s)) ELSE s

RECURSIVE TrimEnd(_)
TrimEnd(s) ==
  IF s = <<>> THEN <<>>
  ELSE IF IsWhitespace(s[Len(s)]) THEN TrimEnd(SubSeq(s, 1, Len(s) - 1)) ELSE s

TrimNone(s) == s

Trim(s) == TrimEnd(TrimStart(s))

\* Array.from(results).map(r => r[0].transcript).join('')
RECURSIVE JoinTranscripts(_)
JoinTranscripts(rs) ==
  IF rs = <<>> THEN <<>> ELSE Head(rs).transcript \o JoinTranscripts(Tail(rs))

FirstTranscriptOnly(rs) == IF rs = <<>> THEN <<>> ELSE rs[1].transcript

\* event.results[0][0].transcript
FirstTranscript(rs) == rs[1].transcript

\* -------------------------------------------------------------- messages
Message(t, b) == [text |-> t, isBot |-> b]

InitialMessages == <<Message(GreetingText, TRUE)>>

PrependMessage(prev, m) == <<m>> \o prev

ReplaceLastMessage(prev, m) == SubSeq(prev, 1, Len(prev) - 1) \o <<m>>

\* setMessages((prev) => [...prev, m])
AppendMessage(prev, m) == Append(prev, m)

NoResponse == [ok |-> FALSE, valid |-> FALSE, answer |-> <<>>]

VARIABLES
  mode,         \* which version of the screen is mounted
  hasSpeech,    \* recognitionRef.current # null (capability detected at mount)
  mounted,      \* the component has not been torn down
  messages,     \* useState<Message[]>
  input,        \* useState("")
  isListening,  \* useState(false)
  isLoading,    \* useState(false) (remote version only)
  session,      \* the recognition object: "idle", "started" or "stopping"
  results,      \* event.results of the onresult event just handled, else <<>>
  phase,        \* position of the async handleSubmit: "none", "fetch", "json"
  response,     \* the Response whose body is being read in phase "json"
  requests,     \* question fields of the requests sent so far
  timers,       \* pending setTimeout callbacks (simulated version)
  toasts,       \* notifications emitted so far
  submitted,    \* submissions accepted so far
  resolved,     \* resolutions completed so far
  lastEvent,    \* the handler that ran last
  preToggle     \* isListening before the last toggle, when lastEvent = "toggle"

vars == <<mode, hasSpeech, mounted, messages, input, isListening, isLoading,
          session, results, phase, response, requests, timers, toasts,
          submitted, resolved, lastEvent, preToggle>>

progVars == <<messages, input, isListening, isLoading, session,
              phase, response, requests, timers, toasts>>

Init ==
  /\ mode \in {"simulated", "remote"}
  /\ hasSpeech \in BOOLEAN
  /\ mounted = TRUE
  /\ messages = InitialMessages
  /\ input = <<>>
  /\ isListening = FALSE
  /\ isLoading = FALSE
  /\ session = "idle"
  /\ results = <<>>
  /\ phase = "none"
  /\ response = NoResponse
  /\ requests = <<>>
  /\ timers = 0
  /\ toasts = 0
  /\ submitted = 0
  /\ resolved = 0
  /\ lastEvent = "mount"
  /\ preToggle = FALSE

\* what a state setter does: nothing once the component is unmounted
SetState(cur, new) == IF mounted THEN new ELSE cur

\* ------------------------------------------------------------ input box
\* onChange={(e) => setInput(e.target.value)}; disabled={isLoading}
HandleChange ==
  /\ mounted
  /\ ~isLoading
  /\ \E s \in TypedTexts : input' = s
  /\ lastEvent' = "change"
  /\ preToggle' = FALSE
  /\ UNCHANGED <<mode, hasSpeech, mounted, messages, isListening, isLoading,
                 session, phase, response, requests, timers, toasts,
                 submitted, resolved>>
  /\ results' = <<>>

\* ------------------------------------------------------ response pipeline
SubmitRejectedNoTrim == IF mode = "remote" THEN TrimNone(input) = <<>> \/ isLoading
                        ELSE TrimNone(input) = <<>>

\* if (!input.trim() || isLoading) return;   (remote)
\* if (!input.trim()) return;                (simulated)
SubmitRejected == IF mode = "remote" THEN Trim(input) = <<>> \/ isLoading
                  ELSE Trim(input) = <<>>

UserMessageTrimmed == Message(Trim(input), FALSE)

\* const userMessage = { text: input, isBot: false };
UserMessage == Message(input, FALSE)

RequestQuestionTrimmed(m) == Trim(m.text)

\* body: JSON.stringify({ question: userMessage.text })
RequestQuestion(m) == m.text

HandleSubmit ==
  /\ mounted
  /\ lastEvent' = "submit"
  /\ preToggle' = FALSE
  /\ IF SubmitRejected
       THEN UNCHANGED <<messages, input, isLoading, phase, requests, timers,
                        submitted>>
       ELSE /\ submitted < MaxSubmits
            /\ messages' = AppendMessage(messages, UserMessage)
            /\ input' = <<>>
            /\ submitted' = submitted + 1
            /\ IF mode = "remote"
                 THEN /\ isLoading' = TRUE
                      /\ phase' = "fetch"
                      /\ requests' = Append(requests, RequestQuestion(UserMessage))
                      /\ UNCHANGED timers
                 ELSE /\ timers' = timers + 1
                      /\ UNCHANGED <<isLoading, phase, requests>>
  /\ UNCHANGED <<mode, hasSpeech, mounted, isListening, session, response, toasts, resolved>>
  /\ results' = <<>>

CatchNoFallback(msgs) == msgs

\* catch (error) { toast(...); setMessages((prev) => [...prev, errorMessage]) }
CatchMessages(msgs) == AppendMessage(msgs, Message(ApologyText, TRUE))

FinallyStuck(loading) == loading

\* finally { setIsLoading(false) }
Finally(loading) == FALSE

\* the catch and finally blocks, run in one continuation
Failed ==
  /\ toasts' = toasts + 1
  /\ messages' = SetState(messages, CatchMessages(messages))
  /\ isLoading' = SetState(isLoading, Finally(isLoading))
  /\ phase' = "none"
  /\ response' = NoResponse
  /\ resolved' = resolved + 1

\* what await fetch(...) can settle with: a rejection or a Response
FetchOutcomes ==
  {[rejected |-> TRUE, ok |-> FALSE, valid |-> FALSE, answer |-> <<>>]}
  \cup {[rejected |-> FALSE, ok |-> FALSE, valid |-> v, answer |-> <<>>] : v \in BOOLEAN}
  \cup {[rejected |-> FALSE, ok |-> TRUE, valid |-> FALSE, answer |-> <<>>]}
  \cup {[rejected |-> FALSE, ok |-> TRUE, valid |-> TRUE, answer |-> a] : a \in Answers}

ThrowsNever(o) == FALSE

\* fetch rejected, or: if (!response.ok) throw new Error(...)
Throws(o) == o.rejected \/ ~o.ok

\* await fetch(...) settles
FetchSettles ==
  /\ phase = "fetch"
  /\ lastEvent' = "fetch"
  /\ preToggle' = FALSE
  /\ \E o \in FetchOutcomes :
       IF Throws(o)
         THEN Failed
         ELSE /\ response' = [ok |-> o.ok, valid |-> o.valid, answer |-> o.answer]
              /\ phase' = "json"
              /\ UNCHANGED <<messages, isLoading, toasts, resolved>>
  /\ UNCHANGED <<mode, hasSpeech, mounted, input, isListening, session,
                 requests, timers, submitted>>
  /\ results' = <<>>

BotResponseApology(data) == Message(ApologyText, TRUE)

\* const botResponse = { text: data.answer, isBot: true };
BotResponse(data) == Message(data.answer, TRUE)

\* await response.json() settles: the parsed body, or a rejection
JsonSettles ==
  /\ phase = "json"
  /\ lastEvent' = "json"
  /\ preToggle' = FALSE
  /\ IF response.valid
       THEN /\ messages' = SetState(messages, AppendMessage(messages, BotResponse(response)))
            /\ isLoading' = SetState(isLoading, Finally(isLoading))
            /\ phase' = "none"
            /\ response' = NoResponse
            /\ resolved' = resolved + 1
            /\ UNCHANGED toasts
       ELSE Failed
  /\ UNCHANGED <<mode, hasSpeech, mounted, input, isListening, session,
                 requests, timers, submitted>>
  /\ results' = <<>>

\* setTimeout(() => setMessages((prev) => [...prev, botResponse]), 1000)
TimerFires ==
  /\ timers > 0
  /\ timers' = timers - 1
  /\ messages' = SetState(messages, AppendMessage(messages, Message(CannedText, TRUE)))
  /\ resolved' = resolved + 1
  /\ lastEvent' = "timer"
  /\ preToggle' = FALSE
  /\ UNCHANGED <<mode, hasSpeech, mounted, input, isListening, isLoading,
                 session, phase, response, requests, toasts, submitted>>
  /\ results' = <<>>

\* ------------------------------------------------------ speech session
\* recognition.start(): InvalidStateError unless no session is running
StartThrows == session # "idle"

StartedFlagStays(l) == l

FlagAlwaysOn(l) == TRUE

\* setIsListening(true) after start(), setIsListening(false) after stop()
ToggledFlag(l) == ~l

NoRecognitionIgnored == FALSE

\* if (!recognitionRef.current) { console.error(...); return; }
NoRecognition == ~hasSpeech

\* onClick={toggleListening}; disabled={isLoading} in the remote version
ToggleListening ==
  /\ mounted
  /\ ~isLoading
  /\ lastEvent' = "toggle"
  /\ preToggle' = isListening
  /\ IF NoRecognition
       THEN UNCHANGED <<isListening, session>>
       ELSE IF isListening
              THEN /\ session' = IF session = "started" THEN "stopping" ELSE session
                   /\ isListening' = ToggledFlag(isListening)
              ELSE IF StartThrows
                     THEN UNCHANGED <<isListening, session>>
                     ELSE /\ session' = "started"
                          /\ isListening' = ToggledFlag(isListening)
  /\ results' = <<>>
  /\ UNCHANGED <<mode, hasSpeech, mounted, messages, input, isLoading, phase,
                 response, requests, timers, toasts, submitted, resolved>>

Result(w, f) == [transcript |-> w, isFinal |-> f]

\* event.results: the final results of the session, then an interim one if any
ResultLists ==
  {<<Result(w, f)>> : w \in Words, f \in BOOLEAN}
  \cup {<<Result(v, TRUE), Result(w, f)>> : v \in Words, w \in Words, f \in BOOLEAN}

AppendTranscript(prev, transcript) == prev \o transcript

\* setInput(transcript)
SetInputTranscript(prev, transcript) == transcript

FinalResultSubmits(msgs, rs) ==
  IF rs[Len(rs)].isFinal
    THEN Append(msgs, Message(JoinTranscripts(rs), FALSE))
    ELSE msgs

\* if (event.results[event.results.length - 1].isFinal) setInput(transcript):
\* a final result is kept in the input and nothing is sent
FinalResultMessages(msgs, rs) == msgs

\* recognition.onresult
OnResult ==
  /\ hasSpeech
  /\ session \in {"started", "stopping"}
  /\ lastEvent' = "result"
  /\ preToggle' = FALSE
  /\ IF mode = "remote"
       THEN \E new \in ResultLists :
              /\ results' = new
              /\ input' = SetState(input, SetInputTranscript(input, JoinTranscripts(new)))
              /\ messages' = SetState(messages, FinalResultMessages(messages, new))
              /\ UNCHANGED <<isListening, session>>
       ELSE \E w \in Words :
              /\ results' = <<Result(w, TRUE)>>
              /\ input' = SetState(input, SetInputTranscript(input, FirstTranscript(results')))
              /\ isListening' = SetState(isListening, FALSE)
              /\ session' = "ending"
              /\ UNCHANGED messages
  /\ UNCHANGED <<mode, hasSpeech, mounted, isLoading, phase,
                 response, requests, timers, toasts, submitted, resolved>>

EndedFlagStays(l) == l

\* setIsListening(false) in onerror and onend
EndedFlag(l) == FALSE

\* recognition.onerror; the session then ends
OnError ==
  /\ hasSpeech
  /\ session \in {"started", "stopping"}
  /\ session' = "ending"
  /\ isListening' = SetState(isListening, EndedFlag(isListening))
  /\ lastEvent' = "error"
  /\ preToggle' = FALSE
  /\ results' = <<>>
  /\ UNCHANGED <<mode, hasSpeech, mounted, messages, input, isLoading, phase,
                 response, requests, timers, toasts, submitted, resolved>>

\* recognition.onend
OnEnd ==
  /\ hasSpeech
  /\ session # "idle"
  /\ session' = "idle"
  /\ isListening' = SetState(isListening, EndedFlag(isListening))
  /\ lastEvent' = "end"
  /\ preToggle' = FALSE
  /\ results' = <<>>
  /\ UNCHANGED <<mode, hasSpeech, mounted, messages, input, isLoading, phase,
                 response, requests, timers, toasts, submitted, resolved>>

AbortNothing(s) == s

\* recognition.abort(): the session stops at once and only its end is pending
Abort(s) == IF s = "idle" THEN "idle" ELSE "ending"

\* the effect cleanup: if (recognitionRef.current) recognitionRef.current.abort()
Teardown ==
  /\ mounted
  /\ mounted' = FALSE
  /\ session' = IF hasSpeech THEN Abort(session) ELSE session
  /\ lastEvent' = "teardown"
  /\ preToggle' = FALSE
  /\ results' = <<>>
  /\ UNCHANGED <<mode, hasSpeech, messages, input, isListening, isLoading,
                 phase, response, requests, timers, toasts,
                 submitted, resolved>>

Next ==
  \/ HandleChange
  \/ HandleSubmit
  \/ FetchSettles
  \/ JsonSettles
  \/ TimerFires
  \/ ToggleListening
  \/ OnResult
  \/ OnError
  \/ OnEnd
  \/ Teardown

Spec == Init /\ [][Next]_vars

\* the service answers or fails, and timers fire
FairSpec ==
  Spec /\ WF_vars(FetchSettles) /\ WF_vars(JsonSettles) /\ WF_vars(TimerFires)

\* ------------------------------------------------- the remote version alone
InitRemote == Init /\ mode = "remote"

NextRemote ==
  \/ HandleChange
  \/ HandleSubmit
  \/ FetchSettles
  \/ JsonSettles
  \/ ToggleListening
  \/ OnResult
  \/ OnError
  \/ OnEnd
  \/ Teardown

SpecRemote == InitRemote /\ [][NextRemote]_vars

\* the answer service eventually responds or fails
FairSpecRemote ==
  SpecRemote /\ WF_vars(FetchSettles) /\ WF_vars(JsonSettles)

\* ------------------------------------------------------------ vocabulary
IsPrefix(s, t) == Len(s) <= Len(t) /\ SubSeq(t, 1, Len(s)) = s

\* timers and requests not yet resolved
Outstanding == timers + (IF phase # "none" THEN 1 ELSE 0)

IsUser(m) == ~m.isBot

UserTexts(msgs) ==
  LET us == SelectSeq(msgs, IsUser) IN [i \in 1..Len(us) |-> us[i].text]

WhitespaceOnly(s) == \A i \in 1..Len(s) : s[i] = " "

LastMessage == messages[Len(messages)]

\* a step in which the remote handler finishes in its catch block
FailureStep ==
  /\ phase' = "none"
  /\ \/ phase = "fetch"
     \/ phase = "json" /\ (~response.ok \/ ~response.valid)

\* a step in which the remote handler finishes with the parsed answer
SuccessStep == phase = "json" /\ response.ok /\ response.valid /\ phase' = "none"

\* ------------------------------------------------------------------ C1
\* C1: a submit while a resolution is outstanding does not change the
\* conversation, and at most one timer or request is outstanding at any time.
C1_SubmitWhilePendingIsNoOp ==
  /\ [][(lastEvent' = "submit" /\ Outstanding > 0) => messages' = messages]_vars
  /\ [](Outstanding <= 1)

\* ------------------------------------------------------------------ C2
\* C2: two user messages are never adjacent, and when nothing is pending each
\* user message is immediately followed by exactly one assistant message.
C2_UserThenOneReply ==
  /\ \A i \in 1..(Len(messages) - 1) :
       ~(IsUser(messages[i]) /\ IsUser(messages[i + 1]))
  /\ (mounted /\ Outstanding = 0) =>
       \A i \in 1..Len(messages) :
         IsUser(messages[i]) =>
           /\ i < Len(messages)
           /\ messages[i + 1].isBot
           /\ (i + 2 <= Len(messages) => IsUser(messages[i + 2]))

\* ------------------------------------------------------------------ C3
\* C3: once every accepted submission has resolved, the conversation has
\* grown by exactly 2 per submission (as many user messages as submissions,
\* one reply each), and every step keeps the earlier messages as a prefix.
C3_GrowsByTwo ==
  /\ []((mounted /\ Outstanding = 0) =>
          /\ Len(messages) = 1 + 2 * submitted
          /\ Len(UserTexts(messages)) = submitted)
  /\ [][IsPrefix(messages, messages')]_vars

C3_Witness ==
  /\ mounted
  /\ Outstanding = 0
  /\ submitted = 2
  /\ Len(messages) = 5

\* ------------------------------------------------------------------ C4
\* C4: in remote mode every accepted submission is resolved exactly once,
\* the pipeline is Idle exactly when no request is in flight, and a request
\* in flight is eventually resolved (the service responds or fails).
C4_AlwaysResolved ==
  /\ [](mounted => (isLoading <=> phase # "none"))
  /\ [](resolved = submitted - (IF phase # "none" THEN 1 ELSE 0))
  /\ ((phase # "none") ~> (phase = "none"))

C4_Witness ==
  /\ mounted
  /\ ~isLoading
  /\ resolved = 2
  /\ toasts = 1

\* ------------------------------------------------------------------ C5
\* C5: in remote mode a failed resolution emits exactly one notification and
\* appends exactly the apology message; a successful one emits no
\* notification and appends exactly the message built from the answer.
C5_FailureFallback ==
  [][/\ FailureStep => toasts' = toasts + 1
     /\ (FailureStep /\ mounted) =>
          messages' = Append(messages, Message(ApologyText, TRUE))
     /\ SuccessStep => toasts' = toasts
     /\ (SuccessStep /\ mounted) =>
          /\ Len(messages') = Len(messages) + 1
          /\ messages'[Len(messages')].text = response.answer]_vars

C5_Witness ==
  /\ mounted
  /\ lastEvent = "fetch"
  /\ phase = "none"
  /\ toasts = 1
  /\ LastMessage = Message(ApologyText, TRUE)

\* ------------------------------------------------------------------ C6
\* C6: in remote mode there is one request per accepted submission, its
\* question is the text of the user message appended by that submission, and
\* on success the appended assistant message carries the response's answer.
C6_RequestAndAnswer ==
  /\ [](Len(requests) = submitted /\ requests = UserTexts(messages))
  /\ [][(SuccessStep /\ mounted) =>
          messages' = Append(messages, Message(response.answer, TRUE))]_vars

C6_Witness ==
  /\ mounted
  /\ lastEvent = "json"
  /\ requests = << <<" ", "a", " ">> >>
  /\ LastMessage = Message(<<"30 days">>, TRUE)

\* ------------------------------------------------------------------ C7
\* C7: a submit with an empty or whitespace-only input changes nothing: not
\* the conversation, the input, the pipeline, the listening state, the
\* session, the requests, the timers or the notifications.
C7_BlankSubmitNoOp ==
  [][(lastEvent' = "submit" /\ WhitespaceOnly(input)) => UNCHANGED progVars]_vars

C7_Witness ==
  /\ lastEvent = "submit"
  /\ input = <<" ">>
  /\ isListening

\* ------------------------------------------------------------------ C8
\* C8: the conversation is never empty, its first message is the seeded
\* greeting from the assistant, and every step only appends to it.
C8_SeedAndAppendOnly ==
  /\ [](Len(messages) >= 1 /\ messages[1] = Message(GreetingText, TRUE))
  /\ [][IsPrefix(messages, messages')]_vars

C8_Witness ==
  /\ Len(messages) = 5
  /\ messages[1] = Message(GreetingText, TRUE)
  /\ IsUser(messages[2])

\* ------------------------------------------------------------------ C9
\* C9: while the pipeline is awaiting a response the input does not change.
C9_InputFrozenWhileAwaiting ==
  [][(isLoading /\ isLoading') => input' = input]_vars

\* ------------------------------------------------------------------ C10
\* C10: a toggle that directly follows a toggle restores the listening state
\* that held before the first of the two.
C10_ToggleTwiceRestores ==
  [][(lastEvent = "toggle" /\ lastEvent' = "toggle") => isListening' = preToggle]_vars

\* ------------------------------------------------------------------ C11
\* C11: after a session error or a session end the component is not
\* listening, and only an explicit toggle makes it listen again.
C11_EndResetsListening ==
  /\ [][(lastEvent' \in {"error", "end"} /\ mounted) => ~isListening']_vars
  /\ [][(~isListening /\ isListening') => lastEvent' = "toggle"]_vars

C11_Witness ==
  /\ mounted
  /\ lastEvent = "error"
  /\ session = "ending"
  /\ ~isListening

\* ------------------------------------------------------------------ C12
RECURSIVE ConcatAll(_)
ConcatAll(rs) ==
  IF Len(rs) = 0 THEN <<>>
  ELSE ConcatAll(SubSeq(rs, 1, Len(rs) - 1)) \o rs[Len(rs)].transcript

\* C12: after every transcript event the input is the concatenation of the
\* results of that event, whatever the input held before.
C12_TranscriptOverwrites ==
  [][(lastEvent' = "result" /\ mounted) => input' = ConcatAll(results')]_vars

C12_Witness ==
  /\ mounted
  /\ mode = "remote"
  /\ lastEvent = "result"
  /\ Len(results) = 2
  /\ ~results[2].isFinal
  /\ input = <<"a", "a">>

\* ------------------------------------------------------------------ C13
\* C13: without the speech capability the component never listens and no
\* session is ever started.
C13_NoCapabilityNoSession ==
  ~hasSpeech => (~isListening /\ session = "idle")

C13_Witness ==
  /\ ~hasSpeech
  /\ lastEvent = "toggle"
  /\ Len(messages) >= 2
  /\ ~isListening

\* ------------------------------------------------------------------ C14
\* C14: once the component is torn down no recognition session is running:
\* the session is idle, or aborted with only its end event pending.
C14_NoSessionAfterTeardown ==
  ~mounted => session \in {"idle", "ending"}

C14_Witness ==
  /\ ~mounted
  /\ lastEvent = "teardown"
  /\ session = "ending"
  /\ isListening
  /\ phase = "fetch"

\* ------------------------------------------------------------------ C15
\* C15: in simulated mode an accepted submit appends the user message at
\* once, the timer appends exactly the canned reply and leaves nothing
\* pending, and no notification or apology message is ever produced.
C15_SimulatedReply ==
  /\ [](mode = "simulated" =>
          /\ toasts = 0
          /\ \A i \in 1..Len(messages) : messages[i].text # ApologyText)
  /\ [][(mode = "simulated" /\ lastEvent' = "submit" /\ ~WhitespaceOnly(input)) =>
          messages' = Append(messages, [text |-> input, isBot |-> FALSE])]_vars
  /\ [][(mode = "simulated" /\ lastEvent' = "timer" /\ mounted) =>
          /\ messages' = Append(messages, [text |-> CannedText, isBot |-> TRUE])
          /\ Outstanding' = 0]_vars

\* ------------------------------------------------------------------ C16
\* C16: a submit of a non-blank input while nothing blocks it appends, in
\* that one step, the user message with the input as typed, empties the
\* input and leaves a resolution pending (isLoading in the remote version).
C16_AcceptedSubmit ==
  [][(lastEvent' = "submit" /\ ~WhitespaceOnly(input) /\ ~isLoading) =>
       /\ messages' = Append(messages, [text |-> input, isBot |-> FALSE])
       /\ input' = <<>>
       /\ Outstanding' = Outstanding + 1
       /\ resolved' = resolved
       /\ (mode = "remote" => (isLoading' /\ phase' = "fetch"))]_vars

C16_Witness ==
  /\ mode = "remote"
  /\ lastEvent = "submit"
  /\ isLoading
  /\ phase = "fetch"
  /\ input = <<>>
  /\ LastMessage = [text |-> <<" ", "a", " ">>, isBot |-> FALSE]

\* ------------------------------------------------------------------ C17
\* C17: toggle, transcript, session error and session end leave the
\* conversation, the pipeline, the requests, the timers and the
\* notifications unchanged.
C17_SpeechFrame ==
  [][lastEvent' \in {"toggle", "result", "error", "end"} =>
       UNCHANGED <<messages, isLoading, phase, response, requests, timers,
                   toasts, submitted, resolved>>]_vars

C17_Witness ==
  /\ mounted
  /\ lastEvent = "result"
  /\ results[Len(results)].isFinal
  /\ input = <<"a", "a">>
  /\ Len(messages) = 1

\* ------------------------------------------------------------------ C18
NumBot == Len(SelectSeq(messages, LAMBDA m : m.isBot))

NumUser == Len(SelectSeq(messages, IsUser))

\* C18: in remote mode, when idle the last message is from the assistant and
\* there is one assistant message more than user messages; when awaiting, the
\* last message is from the user and the two counts are equal.
C18_PipelineMatchesConversation ==
  IF isLoading
    THEN IsUser(LastMessage) /\ NumBot = NumUser
    ELSE LastMessage.isBot /\ NumBot = NumUser + 1

C18_Witness ==
  /\ isLoading
  /\ Len(messages) = 4
  /\ toasts = 1

\* ------------------------------------------------------------------ C19
\* C19: while mounted, the component is listening exactly when a recognition
\* session has been started and has neither ended, errored nor been stopped.
C19_FlagMatchesSession ==
  mounted => (isListening <=> session = "started")

\* a start attempted while the stopped session has not yet ended
C19_Witness ==
  /\ mounted
  /\ lastEvent = "toggle"
  /\ ~preToggle
  /\ session = "stopping"
  /\ ~isListening
====
